---- MODULE Spec2Model ----
(***************************************************************************)
(* Model of the tcex utility helpers Util.find_line_number,                *)
(* Util.find_line_in_code (and their verbatim copies in CodeOperation) and *)
(* Util.printable_cred.                                                    *)
(*                                                                         *)
(* A Python str is a sequence of one-character strings.  A Python value is *)
(* a record tagged with its type: None, str, re.Pattern or int.  Patterns  *)
(* are literal (they hold no regex metacharacter), so re.match(p, line)    *)
(* succeeds exactly when p is a prefix of line.                            *)
(*                                                                         *)
(* The two locators are called with the same needle and triggers, each on  *)
(* its own text.  find_line_number scans `contents`.  find_line_in_code    *)
(* scans astunparse.unparse(ast.parse(code)): ast and astunparse are       *)
(* third-party, so what they make of `code` is an input of the model,      *)
(* either a SyntaxError (`parse_ok` is FALSE) or the normalised text       *)
(* `unparsed`.  Each locator advances one line of its loop per step.       *)
(***************************************************************************)
EXTENDS Integers, Sequences, FiniteSets

\* ---------------------------------------------------------------- bounds
MaxLines == 3
MaxCredLen == 4
MaxVisible == 2
MaxMaskCount == 2

\* ---------------------------------------------------------- Python values
PyNone == [kind |-> "None"]
PyStr(s) == [kind |-> "str", v |-> s]
PyPattern(s) == [kind |-> "Pattern", v |-> s]
PyInt(n) == [kind |-> "int", v |-> n]

IsNone(x) == x.kind = "None"

\* Python truthiness: None and '' are falsy, a compiled pattern is always truthy.
Truthy(x) ==
    CASE x.kind = "None" -> FALSE
      [] x.kind = "str" -> x.v # <<>>
      [] x.kind = "Pattern" -> TRUE
      [] x.kind = "int" -> x.v # 0

NL == "\n"
SP == " "
SQ == "'"
DQ == "\""

\* ------------------------------------------------------------ str helpers
RECURSIVE LStrip(_)
LStrip(s) == IF s # <<>> /\ Head(s) \in {SP, NL} THEN LStrip(Tail(s)) ELSE s

RECURSIVE RStrip(_)
RStrip(s) ==
    IF s # <<>> /\ s[Len(s)] \in {SP, NL} THEN RStrip(SubSeq(s, 1, Len(s) - 1)) ELSE s

Strip(s) == RStrip(LStrip(s))

\* s.split('\n'): k line breaks give k + 1 lines, the last one possibly empty.
RECURSIVE SplitFrom(_, _, _)
SplitFrom(s, i, cur) ==
    IF i > Len(s) THEN <<cur>>
    ELSE IF s[i] = NL THEN <<cur>> \o SplitFrom(s, i + 1, <<>>)
    ELSE SplitFrom(s, i + 1, Append(cur, s[i]))

Split(s) == SplitFrom(s, 1, <<>>)

\* re.match(pattern, line) for a literal pattern: the pattern is a prefix of the line.
Match(p, line) == Len(p.v) <= Len(line) /\ SubSeq(line, 1, Len(p.v)) = p.v

\* magnet_on = not trigger_start
InitialMagnetAlwaysOn(trigger_start) == TRUE
InitialMagnet(trigger_start) == ~Truthy(trigger_start)

\* ------------------------------------------------------ the loop bodies
\* One iteration of the loop of find_line_number on `line` with the gate
\* `magnet_on`: what the iteration does (continue after arming, return,
\* break, or fall through to the next line) and the gate after it.
NumberBodyNeedleFirst(needle, line, trigger_start, trigger_stop, magnet_on) ==
    IF Strip(line) # <<>> THEN
        IF magnet_on /\ Match(needle, line)
            THEN [act |-> "return", magnet_on |-> magnet_on]
        ELSE IF ~IsNone(trigger_start) /\ Match(trigger_start, line)
            THEN [act |-> "continue", magnet_on |-> TRUE]
        ELSE IF ~IsNone(trigger_stop) /\ Match(trigger_stop, line) /\ magnet_on
            THEN [act |-> "break", magnet_on |-> magnet_on]
        ELSE [act |-> "next", magnet_on |-> magnet_on]
    ELSE [act |-> "next", magnet_on |-> magnet_on]

NumberBodyStopUngated(needle, line, trigger_start, trigger_stop, magnet_on) ==
    IF Strip(line) # <<>> THEN
        IF ~IsNone(trigger_start) /\ Match(trigger_start, line)
            THEN [act |-> "continue", magnet_on |-> TRUE]
        ELSE IF magnet_on /\ Match(needle, line)
            THEN [act |-> "return", magnet_on |-> magnet_on]
        ELSE IF ~IsNone(trigger_stop) /\ Match(trigger_stop, line)
            THEN [act |-> "break", magnet_on |-> magnet_on]
        ELSE [act |-> "next", magnet_on |-> magnet_on]
    ELSE [act |-> "next", magnet_on |-> magnet_on]

NumberBodyNoBreak(needle, line, trigger_start, trigger_stop, magnet_on) ==
    IF Strip(line) # <<>> THEN
        IF ~IsNone(trigger_start) /\ Match(trigger_start, line)
            THEN [act |-> "continue", magnet_on |-> TRUE]
        ELSE IF magnet_on /\ Match(needle, line)
            THEN [act |-> "return", magnet_on |-> magnet_on]
        ELSE [act |-> "next", magnet_on |-> magnet_on]
    ELSE [act |-> "next", magnet_on |-> magnet_on]

NumberBodyStopFirst(needle, line, trigger_start, trigger_stop, magnet_on) ==
    IF Strip(line) # <<>> THEN
        IF ~IsNone(trigger_start) /\ Match(trigger_start, line)
            THEN [act |-> "continue", magnet_on |-> TRUE]
        ELSE IF ~IsNone(trigger_stop) /\ Match(trigger_stop, line) /\ magnet_on
            THEN [act |-> "break", magnet_on |-> magnet_on]
        ELSE IF magnet_on /\ Match(needle, line)
            THEN [act |-> "return", magnet_on |-> magnet_on]
        ELSE [act |-> "next", magnet_on |-> magnet_on]
    ELSE [act |-> "next", magnet_on |-> magnet_on]

NumberBodyStartOnlyDisarmed(needle, line, trigger_start, trigger_stop, magnet_on) ==
    IF Strip(line) # <<>> THEN
        IF ~magnet_on /\ ~IsNone(trigger_start) /\ Match(trigger_start, line)
            THEN [act |-> "continue", magnet_on |-> TRUE]
        ELSE IF magnet_on /\ Match(needle, line)
            THEN [act |-> "return", magnet_on |-> magnet_on]
        ELSE IF ~IsNone(trigger_stop) /\ Match(trigger_stop, line) /\ magnet_on
            THEN [act |-> "break", magnet_on |-> magnet_on]
        ELSE [act |-> "next", magnet_on |-> magnet_on]
    ELSE [act |-> "next", magnet_on |-> magnet_on]

NumberBody(needle, line, trigger_start, trigger_stop, magnet_on) ==
    IF Strip(line) # <<>> THEN
        IF ~IsNone(trigger_start) /\ Match(trigger_start, line)
            THEN [act |-> "continue", magnet_on |-> TRUE]
        ELSE IF magnet_on /\ Match(needle, line)
            THEN [act |-> "return", magnet_on |-> magnet_on]
        ELSE IF ~IsNone(trigger_stop) /\ Match(trigger_stop, line) /\ magnet_on
            THEN [act |-> "break", magnet_on |-> magnet_on]
        ELSE [act |-> "next", magnet_on |-> magnet_on]
    ELSE [act |-> "next", magnet_on |-> magnet_on]

\* line.lstrip()[:1] in ("'", '"')
QuotePrefixed(line) == LStrip(line) # <<>> /\ Head(LStrip(line)) \in {SQ, DQ}

\* One iteration of the loop of find_line_in_code.
CodeBodyNoSkip(needle, line, trigger_start, trigger_stop, magnet_on) ==
    IF ~IsNone(trigger_start) /\ Match(trigger_start, line)
        THEN [act |-> "continue", magnet_on |-> TRUE]
    ELSE IF magnet_on /\ Match(needle, line)
        THEN [act |-> "return", magnet_on |-> magnet_on]
    ELSE IF ~IsNone(trigger_stop) /\ Match(trigger_stop, line) /\ magnet_on
        THEN [act |-> "break", magnet_on |-> magnet_on]
    ELSE [act |-> "next", magnet_on |-> magnet_on]

CodeBody(needle, line, trigger_start, trigger_stop, magnet_on) ==
    IF ~QuotePrefixed(line) THEN
        IF ~IsNone(trigger_start) /\ Match(trigger_start, line)
            THEN [act |-> "continue", magnet_on |-> TRUE]
        ELSE IF magnet_on /\ Match(needle, line)
            THEN [act |-> "return", magnet_on |-> magnet_on]
        ELSE IF ~IsNone(trigger_stop) /\ Match(trigger_stop, line) /\ magnet_on
            THEN [act |-> "break", magnet_on |-> magnet_on]
        ELSE [act |-> "next", magnet_on |-> magnet_on]
    ELSE [act |-> "next", magnet_on |-> magnet_on]

\* The value find_line_number returns from line number n; find_line_in_code
\* returns line.strip().
NumberReturnZeroBased(line_number) == PyInt(line_number - 1)
NumberReturn(line_number) == PyInt(line_number)

CodeReturn(line) == PyStr(Strip(line))

\* ------------------------------------------------------- printable_cred
RECURSIVE Repeat(_, _)
Repeat(s, n) == IF n <= 0 THEN <<>> ELSE s \o Repeat(s, n - 1)

Max(a, b) == IF a >= b THEN a ELSE b

PrintableCred(cred_, visible_, mask_char_, mask_char_count_) ==
    LET v == Max(visible_, 1)
        m == IF mask_char_ # <<>> THEN mask_char_ ELSE <<"*">>
    IN  IF cred_.kind = "str" /\ Len(cred_.v) >= v * 2
        THEN PyStr(SubSeq(cred_.v, 1, v) \o Repeat(m, mask_char_count_)
                   \o SubSeq(cred_.v, Len(cred_.v) - v + 1, Len(cred_.v)))
        ELSE cred_

\* ------------------------------------------------------------------ state
VARIABLES
    op,              \* which entry point this run exercises
    needle, trigger_start, trigger_stop,
    contents,        \* find_line_number's haystack
    parse_ok,        \* ast.parse(code) succeeds in find_line_in_code
    unparsed,        \* astunparse.unparse(ast.parse(code)) when it does
    n_pc, n_lines, n_line_number, n_magnet_on, n_ret,
    c_pc, c_lines, c_pos, c_magnet_on, c_ret,
    cred, visible, mask_char, mask_char_count,   \* printable_cred's arguments
    p_pc, p_ret

vars == <<op, needle, trigger_start, trigger_stop, contents, parse_ok, unparsed,
          n_pc, n_lines, n_line_number, n_magnet_on, n_ret,
          c_pc, c_lines, c_pos, c_magnet_on, c_ret,
          cred, visible, mask_char, mask_char_count, p_pc, p_ret>>

\* ------------------------------------------------------------------ inputs
LineSet == { <<SP>>, <<"a">>, <<"a", "b">>, <<SP, "b">>, <<SQ, "a">> }

NeedleSet == { PyStr(<<>>), PyStr(<<"a">>), PyStr(<<SP>>) }

StartSet == { PyNone, PyStr(<<>>), PyPattern(<<>>), PyStr(<<"a">>), PyStr(<<"a", "b">>) }

StopSet == { PyNone, PyStr(<<"a">>), PyStr(<<SP>>) }

RECURSIVE JoinLines(_)
JoinLines(ls) ==
    IF Len(ls) = 1 THEN ls[1] ELSE ls[1] \o <<NL>> \o JoinLines(Tail(ls))

LineSeqs == UNION { [1..n -> LineSet] : n \in 1..MaxLines }

\* The lines the normalised text may hold where contents holds the line l:
\* l itself, or a quote-prefixed line (which find_line_in_code skips) where
\* l is blank (which find_line_number skips).
CounterpartLines(l) == {l} \cup (IF Strip(l) = <<>> THEN { <<SQ, "a">> } ELSE {})

\* The normalised texts scanned next to a contents of lines ls.  Two
\* single-line texts are unrelated; otherwise the texts have as many lines
\* and the normalised text holds a counterpart of each line of contents.
UnparsedFor(ls) ==
    { JoinLines(us) : us \in
        { f \in LineSeqs :
            \/ Len(f) = 1 /\ Len(ls) = 1
            \/ /\ Len(f) = Len(ls)
               /\ \A k \in 1..Len(ls) : f[k] \in CounterpartLines(ls[k]) } }

\* Scenario A of the specification: "a\nfoo\nb\nbar\n", needle "bar".
ScenarioA == <<"a", NL, "f", "o", "o", NL, "b", NL, "b", "a", "r", NL>>
NeedleBar == PyStr(<<"b", "a", "r">>)

RECURSIVE SeqsUpTo(_, _)
SeqsUpTo(S, n) ==
    IF n = 0 THEN { <<>> }
    ELSE LET shorter == SeqsUpTo(S, n - 1)
         IN  shorter \cup { Append(s, c) : s \in shorter, c \in S }

CredSet == { PyStr(s) : s \in SeqsUpTo({"k", "y"}, MaxCredLen) } \cup { PyNone }

MaskCharSet == { <<>>, <<"*">>, <<"#">> }

InitFind ==
    /\ op = "find"
    /\ \/ /\ \E ls \in LineSeqs :
                /\ contents = JoinLines(ls)
                /\ \/ parse_ok = TRUE /\ unparsed \in UnparsedFor(ls)
                   \/ parse_ok = FALSE /\ unparsed = <<>>
          /\ needle \in NeedleSet
          /\ trigger_start \in StartSet
          /\ trigger_stop \in StopSet
       \/ /\ contents = ScenarioA
          /\ parse_ok = TRUE /\ unparsed = ScenarioA
          /\ needle = NeedleBar
          /\ trigger_start = PyNone
          /\ trigger_stop = PyNone
    /\ n_pc = "start" /\ c_pc = "start"
    /\ cred = PyNone /\ visible = 1 /\ mask_char = <<"*">> /\ mask_char_count = 0
    /\ p_pc = "idle"

InitCred ==
    /\ op = "printable_cred"
    /\ cred \in CredSet
    /\ visible \in 0..MaxVisible
    /\ mask_char \in MaskCharSet
    /\ mask_char_count \in (-1)..MaxMaskCount
    /\ p_pc = "start"
    /\ needle = PyNone /\ trigger_start = PyNone /\ trigger_stop = PyNone
    /\ contents = <<>> /\ parse_ok = FALSE /\ unparsed = <<>>
    /\ n_pc = "idle" /\ c_pc = "idle"

Init ==
    /\ InitFind \/ InitCred
    /\ n_lines = <<>> /\ n_line_number = 0 /\ n_magnet_on = FALSE /\ n_ret = PyNone
    /\ c_lines = <<>> /\ c_pos = 0 /\ c_magnet_on = FALSE /\ c_ret = PyNone
    /\ p_ret = PyNone

find_vars == <<op, needle, trigger_start, trigger_stop, contents, parse_ok, unparsed>>
n_vars == <<n_pc, n_lines, n_line_number, n_magnet_on, n_ret>>
c_vars == <<c_pc, c_lines, c_pos, c_magnet_on, c_ret>>
p_vars == <<cred, visible, mask_char, mask_char_count, p_pc, p_ret>>

\* ------------------------------------------------------ find_line_number
find_line_number_call ==
    /\ op = "find" /\ n_pc = "start"
    /\ n_magnet_on' = InitialMagnet(trigger_start)
    /\ n_lines' = Split(contents)
    /\ n_line_number' = 1
    /\ n_pc' = "loop"
    /\ UNCHANGED <<n_ret, find_vars, c_vars, p_vars>>

find_line_number_line ==
    /\ n_pc = "loop" /\ n_line_number <= Len(n_lines)
    /\ LET r == NumberBody(needle, n_lines[n_line_number], trigger_start,
                           trigger_stop, n_magnet_on)
       IN  /\ n_magnet_on' = r.magnet_on
           /\ CASE r.act = "return" ->
                    /\ n_ret' = NumberReturn(n_line_number)
                    /\ n_pc' = "done"
                    /\ UNCHANGED n_line_number
                [] r.act = "break" ->
                    /\ n_ret' = PyNone
                    /\ n_pc' = "done"
                    /\ UNCHANGED n_line_number
                [] OTHER ->
                    /\ n_line_number' = n_line_number + 1
                    /\ UNCHANGED <<n_ret, n_pc>>
    /\ UNCHANGED <<n_lines, find_vars, c_vars, p_vars>>

find_line_number_exhausted ==
    /\ n_pc = "loop" /\ n_line_number > Len(n_lines)
    /\ n_ret' = PyNone
    /\ n_pc' = "done"
    /\ UNCHANGED <<n_lines, n_line_number, n_magnet_on, find_vars, c_vars, p_vars>>

\* ----------------------------------------------------- find_line_in_code
\* ast.parse(code) raises SyntaxError, which the locator does not catch.
find_line_in_code_raise ==
    /\ op = "find" /\ c_pc = "start" /\ ~parse_ok
    /\ c_pc' = "raised"
    /\ UNCHANGED <<c_lines, c_pos, c_magnet_on, c_ret, find_vars, n_vars, p_vars>>

find_line_in_code_call ==
    /\ op = "find" /\ c_pc = "start" /\ parse_ok
    /\ c_magnet_on' = InitialMagnet(trigger_start)
    /\ c_lines' = Split(unparsed)
    /\ c_pos' = 1
    /\ c_pc' = "loop"
    /\ UNCHANGED <<c_ret, find_vars, n_vars, p_vars>>

find_line_in_code_line ==
    /\ c_pc = "loop" /\ c_pos <= Len(c_lines)
    /\ LET r == CodeBody(needle, c_lines[c_pos], trigger_start, trigger_stop, c_magnet_on)
       IN  /\ c_magnet_on' = r.magnet_on
           /\ CASE r.act = "return" ->
                    /\ c_ret' = CodeReturn(c_lines[c_pos])
                    /\ c_pc' = "done"
                    /\ UNCHANGED c_pos
                [] r.act = "break" ->
                    /\ c_ret' = PyNone
                    /\ c_pc' = "done"
                    /\ UNCHANGED c_pos
                [] OTHER ->
                    /\ c_pos' = c_pos + 1
                    /\ UNCHANGED <<c_ret, c_pc>>
    /\ UNCHANGED <<c_lines, find_vars, n_vars, p_vars>>

find_line_in_code_exhausted ==
    /\ c_pc = "loop" /\ c_pos > Len(c_lines)
    /\ c_ret' = PyNone
    /\ c_pc' = "done"
    /\ UNCHANGED <<c_lines, c_pos, c_magnet_on, find_vars, n_vars, p_vars>>

\* -------------------------------------------------------- printable_cred
printable_cred ==
    /\ op = "printable_cred" /\ p_pc = "start"
    /\ p_ret' = PrintableCred(cred, visible, mask_char, mask_char_count)
    /\ p_pc' = "done"
    /\ UNCHANGED <<cred, visible, mask_char, mask_char_count, find_vars, n_vars, c_vars>>

Next ==
    \/ printable_cred
    \/ find_line_number_call
    \/ find_line_number_line
    \/ find_line_number_exhausted
    \/ find_line_in_code_raise
    \/ find_line_in_code_call
    \/ find_line_in_code_line
    \/ find_line_in_code_exhausted

Spec == Init /\ [][Next]_vars

\* ================================================================ claims
\* The line each locator is about to examine, and whether it is at one.
NAtLine == n_pc = "loop" /\ n_line_number <= Len(n_lines)
CAtLine == c_pc = "loop" /\ c_pos <= Len(c_lines)
NLine == n_lines[n_line_number]
CLine == c_lines[c_pos]

Supplied(p) == ~IsNone(p)
StartMatches(line) == Supplied(trigger_start) /\ Match(trigger_start, line)
StopMatches(line) == Supplied(trigger_stop) /\ Match(trigger_stop, line)
Blank(line) == Strip(line) = <<>>

\* The locator's step moved on to the next line without returning or breaking.
NMovesOn == n_pc' = "loop" /\ n_line_number' = n_line_number + 1 /\ n_ret' = n_ret
CMovesOn == c_pc' = "loop" /\ c_pos' = c_pos + 1 /\ c_ret' = c_ret

\* The locator's step ended the call with None.
NEndsNone == n_pc' = "done" /\ IsNone(n_ret')
CEndsNone == c_pc' = "done" /\ IsNone(c_ret')

\* The call ended on a break: it is done with None before the text ran out.
NBroke == n_pc = "done" /\ IsNone(n_ret) /\ n_line_number <= Len(n_lines)
CBroke == c_pc = "done" /\ IsNone(c_ret) /\ c_pos <= Len(c_lines)

\* The lines each locator scans.
ContentLines == Split(contents)
UnparsedLines == Split(unparsed)

\* find_line_in_code is called on code that parses.
CodeParses == op = "find" /\ parse_ok

\* The gate of the scan was disarmed at the start of the call and has been
\* armed by a start-trigger line before line k.
NArmedByTriggerBefore(k) ==
    /\ Truthy(trigger_start)
    /\ \E j \in 1..(k - 1) : ~Blank(ContentLines[j]) /\ StartMatches(ContentLines[j])
CArmedByTriggerBefore(k) ==
    /\ Truthy(trigger_start)
    /\ \E j \in 1..(k - 1) : ~QuotePrefixed(UnparsedLines[j])
                              /\ StartMatches(UnparsedLines[j])

\* The gate is armed before line k the way the specification arms it: no
\* start trigger was supplied, or a start-trigger line came before.
NArmedAsSpecifiedBefore(k) == IsNone(trigger_start) \/ NArmedByTriggerBefore(k)
CArmedAsSpecifiedBefore(k) == IsNone(trigger_start) \/ CArmedByTriggerBefore(k)

\* ---------------------------------------------------------------- C1
\* C1 (as claimed): whenever a locator examines a line that matches
\* trigger_stop while its gate is armed (no start trigger supplied, or a
\* start-trigger line seen earlier), the call ends there with None.
C1_StopWhileArmedEndsNone ==
    [][ /\ (find_line_number_line /\ n_magnet_on /\ NArmedAsSpecifiedBefore(n_line_number)
              /\ StopMatches(NLine)
            => NEndsNone)
        /\ (find_line_in_code_line /\ c_magnet_on /\ CArmedAsSpecifiedBefore(c_pos)
              /\ StopMatches(CLine)
            => CEndsNone) ]_vars

\* C1 (amended): whenever a locator examines, with its gate armed, a line it
\* does not skip that matches trigger_stop and matches neither trigger_start
\* nor needle, the call ends there with None, whatever the later lines match.
C1_StopAloneWhileArmedEndsNone ==
    [][ /\ (find_line_number_line /\ n_magnet_on /\ StopMatches(NLine)
              /\ ~Blank(NLine) /\ ~StartMatches(NLine) /\ ~Match(needle, NLine)
            => NEndsNone)
        /\ (find_line_in_code_line /\ c_magnet_on /\ StopMatches(CLine)
              /\ ~QuotePrefixed(CLine) /\ ~StartMatches(CLine) /\ ~Match(needle, CLine)
            => CEndsNone) ]_vars

\* Both calls ended on a stop line and, in each text, a later line the
\* locator does not skip would have matched needle.
C1_Witness ==
    /\ NBroke /\ CBroke
    /\ \E k \in (n_line_number + 1)..Len(n_lines) :
          ~Blank(n_lines[k]) /\ Match(needle, n_lines[k]) /\ ~StartMatches(n_lines[k])
    /\ \E k \in (c_pos + 1)..Len(c_lines) :
          /\ ~QuotePrefixed(c_lines[k])
          /\ Match(needle, c_lines[k]) /\ ~StartMatches(c_lines[k])

\* ---------------------------------------------------------------- C2
\* The lines at which find_line_number's needle test can succeed: not blank,
\* not a start-trigger line, matching needle, with the gate armed (from the
\* start, or by an earlier start-trigger line).
ArmedAt(k) ==
    \/ ~Truthy(trigger_start)
    \/ \E j \in 1..(k - 1) : ~Blank(ContentLines[j]) /\ StartMatches(ContentLines[j])
NeedleHit(k) ==
    /\ ~Blank(ContentLines[k]) /\ ~StartMatches(ContentLines[k])
    /\ Match(needle, ContentLines[k]) /\ ArmedAt(k)

\* C2: the number find_line_number returns is the 1-based position, in
\* contents split on line breaks, of the first line whose needle test
\* succeeds with the gate armed; every earlier line, blank or not, counts one.
\* Scenario A ("a\nfoo\nb\nbar\n", needle "bar", no triggers) gives 4.
C2_LineNumberIsOneBasedPosition ==
    (n_pc = "done" /\ n_ret.kind = "int") =>
        /\ n_ret.v \in 1..Len(ContentLines)
        /\ NeedleHit(n_ret.v)
        /\ \A j \in 1..(n_ret.v - 1) : ~NeedleHit(j)
        /\ (contents = ScenarioA => n_ret.v = 4)

\* A number was returned for a line that follows a blank line.
C2_Witness ==
    /\ n_pc = "done" /\ n_ret.kind = "int"
    /\ \E j \in 1..(n_ret.v - 1) : Blank(ContentLines[j])

\* ---------------------------------------------------------------- C3
\* C3: a step that examines a line on which trigger_start matches neither
\* returns nor breaks: the locator moves on to the next line.
C3_StartLineIsPassedOver ==
    [][ /\ (find_line_number_line /\ StartMatches(NLine) => NMovesOn)
        /\ (find_line_in_code_line /\ StartMatches(CLine) => CMovesOn) ]_vars

\* Both locators are past a second line that matched trigger_start, needle
\* and trigger_stop, examined with the gate armed by the first line.
C3_Witness ==
    /\ n_pc = "loop" /\ c_pc = "loop" /\ n_line_number >= 3 /\ c_pos >= 3
    /\ \A k \in 1..2 : ~Blank(n_lines[k]) /\ StartMatches(n_lines[k])
    /\ \A k \in 1..2 : ~QuotePrefixed(c_lines[k]) /\ StartMatches(c_lines[k])
    /\ Match(needle, n_lines[2]) /\ StopMatches(n_lines[2])
    /\ Match(needle, c_lines[2]) /\ StopMatches(c_lines[2])

\* ---------------------------------------------------------------- C4
NNoLineMatchesStart ==
    /\ op = "find" /\ Supplied(trigger_start)
    /\ \A k \in 1..Len(ContentLines) : ~Match(trigger_start, ContentLines[k])
CNoLineMatchesStart ==
    /\ CodeParses /\ Supplied(trigger_start)
    /\ \A k \in 1..Len(UnparsedLines) : ~Match(trigger_start, UnparsedLines[k])

\* C4: when trigger_start is supplied and matches no line of the text a
\* locator scans, its gate is disarmed throughout the scan and the call
\* returns None.
C4_StartNeverMatchedGivesNone ==
    /\ (n_pc \in {"loop", "done"} /\ NNoLineMatchesStart) =>
          /\ ~n_magnet_on
          /\ (n_pc = "done" => IsNone(n_ret))
    /\ (c_pc \in {"loop", "done"} /\ CNoLineMatchesStart) =>
          /\ ~c_magnet_on
          /\ (c_pc = "done" => IsNone(c_ret))

\* Both calls ended although, in each text, a line the locator does not skip
\* matches needle.
C4_Witness ==
    /\ NNoLineMatchesStart /\ CNoLineMatchesStart /\ n_pc = "done" /\ c_pc = "done"
    /\ \E k \in 1..Len(ContentLines) :
          ~Blank(ContentLines[k]) /\ Match(needle, ContentLines[k])
    /\ \E k \in 1..Len(UnparsedLines) :
          ~QuotePrefixed(UnparsedLines[k]) /\ Match(needle, UnparsedLines[k])

\* ---------------------------------------------------------------- C5
\* C5 (as claimed): right after the call starts, before any line is
\* examined, the gate is armed exactly when trigger_start is None.
C5_GateStartsArmedIffNoStartTrigger ==
    /\ (n_pc = "loop" /\ n_line_number = 1 => (n_magnet_on <=> IsNone(trigger_start)))
    /\ (c_pc = "loop" /\ c_pos = 1 => (c_magnet_on <=> IsNone(trigger_start)))

\* ---------------------------------------------------------------- C6
NFirstLineMatchesNeedle ==
    /\ op = "find" /\ IsNone(trigger_start)
    /\ Match(needle, ContentLines[1])
CFirstLineMatchesNeedle ==
    /\ CodeParses /\ IsNone(trigger_start)
    /\ Match(needle, UnparsedLines[1])

\* C6 (as claimed): with trigger_start omitted and a first line that matches
\* needle, find_line_number returns 1 and find_line_in_code the stripped
\* first line.
C6_FirstLineIsReturned ==
    /\ (n_pc = "done" /\ NFirstLineMatchesNeedle => n_ret = PyInt(1))
    /\ (c_pc = "done" /\ CFirstLineMatchesNeedle
          => c_ret = PyStr(Strip(UnparsedLines[1])))

\* C6 (amended): with trigger_start omitted and a first line that matches
\* needle, find_line_number returns 1 when that line is not blank, and
\* find_line_in_code returns the stripped first line when it is not
\* quote-prefixed, with or without a trigger_stop.
C6_UnskippedFirstLineIsReturned ==
    /\ (n_pc = "done" /\ NFirstLineMatchesNeedle /\ ~Blank(ContentLines[1])
          => n_ret = PyInt(1))
    /\ (c_pc = "done" /\ CFirstLineMatchesNeedle /\ ~QuotePrefixed(UnparsedLines[1])
          => c_ret = PyStr(Strip(UnparsedLines[1])))

\* Both calls returned a first line that also matches the supplied trigger_stop.
C6_Witness ==
    /\ NFirstLineMatchesNeedle /\ StopMatches(ContentLines[1])
    /\ CFirstLineMatchesNeedle /\ StopMatches(UnparsedLines[1])
    /\ n_pc = "done" /\ n_ret = PyInt(1)
    /\ c_pc = "done" /\ c_ret = PyStr(Strip(UnparsedLines[1]))

\* ---------------------------------------------------------------- C7
\* C7: a step that examines a line matching trigger_stop while the gate is
\* disarmed does not end the scan: the locator moves on to the next line.
C7_StopWhileDisarmedIsIgnored ==
    [][ /\ (find_line_number_line /\ ~n_magnet_on /\ StopMatches(NLine) => NMovesOn)
        /\ (find_line_in_code_line /\ ~c_magnet_on /\ StopMatches(CLine) => CMovesOn) ]_vars

\* Both calls returned a line that follows a start-trigger line that follows
\* a line which matched trigger_stop, and only trigger_stop, while the gate
\* was still disarmed.
C7_Witness ==
    /\ n_pc = "done" /\ c_pc = "done" /\ n_ret.kind = "int" /\ c_ret.kind = "str"
    /\ Truthy(trigger_start)
    /\ \E j \in 1..Len(ContentLines) : \E k \in (j + 1)..(n_ret.v - 1) :
          /\ \A i \in 1..j : ~StartMatches(ContentLines[i])
          /\ ~Blank(ContentLines[j]) /\ StopMatches(ContentLines[j])
          /\ ~Blank(ContentLines[k]) /\ StartMatches(ContentLines[k])
    /\ \E j \in 1..Len(UnparsedLines) : \E k \in (j + 1)..(c_pos - 1) :
          /\ \A i \in 1..j : ~StartMatches(UnparsedLines[i])
          /\ ~QuotePrefixed(UnparsedLines[j]) /\ StopMatches(UnparsedLines[j])
          /\ ~QuotePrefixed(UnparsedLines[k]) /\ StartMatches(UnparsedLines[k])
    /\ c_ret = PyStr(Strip(UnparsedLines[c_pos]))

\* ---------------------------------------------------------------- C8
\* What C8 says printable_cred returns.
Min(a, b) == IF a <= b THEN a ELSE b
FirstChars(s, n) == SubSeq(s, 1, Min(n, Len(s)))
LastChars(s, n) == SubSeq(s, Len(s) - Min(n, Len(s)) + 1, Len(s))
MaskedCred ==
    FirstChars(cred.v, visible) \o Repeat(mask_char, mask_char_count)
        \o LastChars(cred.v, visible)

\* C8 (as claimed): for a non-empty str cred, visible >= 1, a mask character
\* and a mask_char_count >= 0,
\* printable_cred returns the first `visible` characters, mask_char_count
\* mask characters and the last `visible` characters of cred, a string of
\* length 2 * visible + mask_char_count whatever the length of cred.
C8_CredIsMasked ==
    (p_pc = "done" /\ cred.kind = "str" /\ cred.v # <<>> /\ visible >= 1
        /\ mask_char # <<>> /\ mask_char_count >= 0) =>
        /\ p_ret.kind = "str"
        /\ p_ret.v = MaskedCred
        /\ Len(p_ret.v) = 2 * visible + mask_char_count

\* ---------------------------------------------------------------- C9
NReturnsHere == n_pc' = "done" /\ n_ret' = PyInt(n_line_number)
CReturnsHere == c_pc' = "done" /\ c_ret' = PyStr(Strip(CLine))

\* C9 (as claimed): once a start-trigger line has armed the gate, a step
\* that examines a line the locator does not skip and that matches needle
\* returns that line, also when the line matches trigger_start again.
C9_ArmedNeedleLineIsReturned ==
    [][ /\ (find_line_number_line /\ n_magnet_on /\ NArmedByTriggerBefore(n_line_number)
              /\ ~Blank(NLine) /\ Match(needle, NLine)
            => NReturnsHere)
        /\ (find_line_in_code_line /\ c_magnet_on /\ CArmedByTriggerBefore(c_pos)
              /\ ~QuotePrefixed(CLine) /\ Match(needle, CLine)
            => CReturnsHere) ]_vars

\* C9 (amended): the start trigger is acted on whatever the gate: a line the
\* locator does not skip that matches trigger_start is passed over and
\* leaves the gate armed, whether the gate was armed before it or not; once
\* the gate is armed, a step that examines a line the locator does not skip,
\* that matches needle and does not match trigger_start, returns that line.
C9_ArmedNeedleLineNotStartIsReturned ==
    [][ /\ (find_line_number_line /\ n_magnet_on /\ ~Blank(NLine)
              /\ Match(needle, NLine) /\ ~StartMatches(NLine)
            => NReturnsHere)
        /\ (find_line_number_line /\ ~Blank(NLine) /\ StartMatches(NLine)
            => NMovesOn /\ n_magnet_on')
        /\ (find_line_in_code_line /\ c_magnet_on /\ ~QuotePrefixed(CLine)
              /\ Match(needle, CLine) /\ ~StartMatches(CLine)
            => CReturnsHere)
        /\ (find_line_in_code_line /\ ~QuotePrefixed(CLine) /\ StartMatches(CLine)
            => CMovesOn /\ c_magnet_on') ]_vars

\* Both calls returned a line that follows a line matching needle and
\* trigger_start, itself examined after a start-trigger line armed the gate.
C9_Witness ==
    /\ n_pc = "done" /\ c_pc = "done" /\ n_ret.kind = "int" /\ c_ret.kind = "str"
    /\ \E k \in 2..(n_ret.v - 1) :
          /\ NArmedByTriggerBefore(k) /\ ~Blank(ContentLines[k])
          /\ Match(needle, ContentLines[k]) /\ StartMatches(ContentLines[k])
    /\ \E k \in 2..(c_pos - 1) :
          /\ CArmedByTriggerBefore(k) /\ ~QuotePrefixed(UnparsedLines[k])
          /\ Match(needle, UnparsedLines[k]) /\ StartMatches(UnparsedLines[k])

\* --------------------------------------------------------------- C10
\* Both locators have split their text and are scanning it or are done.
BothScanning == n_pc \in {"loop", "done"} /\ c_pc \in {"loop", "done"}

\* Line k is skipped by both locators, each in its own text: it is blank in
\* contents and quote-prefixed in the normalised text.
SkippedInBoth(k) == Blank(n_lines[k]) /\ QuotePrefixed(c_lines[k])

\* Line k is the same line in both texts and neither locator skips it.
SameUnskippedLine(k) ==
    n_lines[k] = c_lines[k] /\ ~Blank(n_lines[k]) /\ ~QuotePrefixed(c_lines[k])

\* The two locators scan the same sequence of lines with the same lines
\* skipped: the texts have as many lines, and at every position either both
\* locators skip the line or they examine the same line.
SameLinesSameSkips ==
    /\ BothScanning
    /\ Len(n_lines) = Len(c_lines)
    /\ \A k \in 1..Len(n_lines) : SkippedInBoth(k) \/ SameUnskippedLine(k)

\* C10: on the same lines with the same lines skipped (blank lines in
\* contents, quote-prefixed lines at the same positions of the normalised
\* text), the two locators hold the same gate when they are about to examine
\* the same line, neither goes past the line the other finished at, and when
\* both are done they finished at the same line with the same gate, both
\* with None or find_line_in_code with the stripped text of the line whose
\* number find_line_number returned.
C10_SameStateMachine ==
    SameLinesSameSkips =>
        /\ (n_pc = "loop" /\ c_pc = "loop" /\ n_line_number = c_pos
              => n_magnet_on = c_magnet_on)
        /\ (n_pc = "done" /\ c_pc = "loop" => c_pos <= n_line_number)
        /\ (c_pc = "done" /\ n_pc = "loop" => n_line_number <= c_pos)
        /\ (n_pc = "done" /\ c_pc = "done" =>
              /\ n_line_number = c_pos
              /\ n_magnet_on = c_magnet_on
              /\ (IsNone(n_ret) <=> IsNone(c_ret))
              /\ (~IsNone(n_ret) =>
                    /\ n_ret.kind = "int" /\ n_ret.v \in 1..Len(ContentLines)
                    /\ c_ret = PyStr(Strip(ContentLines[n_ret.v]))))

\* Both calls returned the line after a line both skipped (blank in
\* contents, quote-prefixed in the normalised text) although it matches
\* needle in both texts, and strip() shortened the returned text.
C10_Witness ==
    /\ SameLinesSameSkips /\ n_pc = "done" /\ c_pc = "done"
    /\ n_ret.kind = "int" /\ c_ret.kind = "str"
    /\ \E j \in 1..(n_ret.v - 1) :
          /\ SkippedInBoth(j)
          /\ Match(needle, n_lines[j]) /\ Match(needle, c_lines[j])
    /\ c_ret.v # ContentLines[n_ret.v]
====
